---- MODULE Spec2Model ----
(***************************************************************************)
(* The process scheduler of os/kernel/src/process/scheduler.rs: the        *)
(* Scheduler core (processes, current, last_id) with its operations add    *)
(* and switch.  switch is modelled at the granularity of its scan loop:    *)
(* one step for lines 137-141, one step per loop iteration (lines          *)
(* 144-158) and one step for the return of aarch64::wfi(), so that the     *)
(* states inside a blocked call and the state flips made by interrupt      *)
(* handlers while the CPU is parked are part of the model.  Around the core *)
(* stands the facade GlobalScheduler(Mutex<Option<Scheduler>>): start       *)
(* installs a core, add and switch take the guard and delegate to it.       *)
(***************************************************************************)
EXTENDS Integers, Sequences, FiniteSets, TLC

\* The largest value of the Id integer type (u64::MAX in the kernel), scaled
\* down so that exhaustion of the id space is reachable.
IdMax == 1

\* The registers of a trap frame other than tpidr, as one opaque payload: the
\* scheduler copies them and never reads them, so two values tell every
\* copy from every other.
Regs == {0, 1}

\* The per-call counter of loop iterations saturates one past the longest
\* scan the claims speak of (ready-set length + 1).
StepCap == IdMax + 3

VARIABLES
    processes,   \* Scheduler.processes: VecDeque<Process>, head first
    current,     \* Scheduler.current: Option<Id>
    last_id,     \* Scheduler.last_id: Option<Id>
    facade,      \* GlobalScheduler.0: "Uninitialized" (None) or "Initialized" (Some(core))
    agent,       \* a second caller of the facade: "idle", or "spinning" in Mutex::lock
    pc,          \* position of the caller: "idle" (between calls), "scan", "wfi", "panic"
    current_id,  \* the local current_id of switch (line 138)
    process,     \* the local process of the loop while the CPU is parked in wfi
    tf,          \* the caller's trap frame buffer (*tf)
    ret,         \* the last call ("switching": a switch still running) and its value
    returned,    \* history: the ids returned by the successful add calls, in order
    saved,       \* history: stack -> the trap frame add or switch stored, until it is copied out
    entry,       \* history: facts recorded when the last switch call was entered
    ran_running, \* history: some switch call was passed the target state Running
    steps,       \* history: loop iterations completed by the running switch call
    waits        \* history: the running switch call has invoked wfi

vars == <<processes, current, last_id, facade, agent, pc, current_id, process, tf,
          ret, returned, saved, entry, ran_running, steps, waits>>

core == <<processes, current, last_id>>
history == <<returned, saved, entry, ran_running, steps, waits>>
outer == <<facade, agent>>

----------------------------------------------------------------------------
\* Option<T>: None is the empty sequence, Some(x) the one-element sequence.
None == << >>
Some(x) == <<x>>

\* process::State as the specification names it.
States == {"Ready", "Running", "Blocked"}

Ids == 0..IdMax
TrapFrames == [tpidr : Ids, regs : Regs]
Stacks == 1..(IdMax + 1)

\* u64::checked_add on the scaled Id type.
checked_add(x, y) == IF x + y > IdMax THEN None ELSE Some(x + y)

\* Process::new(): a fresh stack, a default trap frame whose registers the
\* caller then fills in, state Ready.
Process_new(stack, regs) ==
    [trap_frame |-> [tpidr |-> 0, regs |-> regs], stack |-> stack, state |-> "Ready"]

\* Process::get_id(): add stores the id in trap_frame.tpidr and nowhere else.
get_id(p) == p.trap_frame.tpidr

\* Process::is_ready()
is_ready(p) == p.state = "Ready"

\* VecDeque operations.
push_back(q, p) == Append(q, p)
push_front(q, p) == <<p>> \o q
pop_front_rest(q) == Tail(q)

Min(a, b) == IF a < b THEN a ELSE b
Range(q) == {q[i] : i \in 1..Len(q)}

\* Every process the scheduler owns: the queue and the loop's local.
AllProcesses == Range(processes) \cup Range(process)

\* entry while no switch call is running.
NoEntry == [before |-> FALSE, ready |-> FALSE, turn |-> FALSE, len |-> 0, stack |-> 0,
            frame |-> None]

SomeReady(q) == \E i \in 1..Len(q) : is_ready(q[i])

----------------------------------------------------------------------------
\* GlobalScheduler::uninitialized() (line 22); the fields of the core that
\* start will install are shown as Scheduler::new() makes them.
Init ==
    /\ facade = "Uninitialized"
    /\ agent = "idle"
    /\ processes = << >>
    /\ current = None
    /\ last_id = None
    /\ pc = "idle"
    /\ current_id = None
    /\ process = None
    /\ tf = [tpidr |-> 0, regs |-> 0]
    /\ ret = [op |-> "new", id |-> None]
    /\ returned = << >>
    /\ saved = [s \in Stacks |-> None]
    /\ entry = NoEntry
    /\ ran_running = FALSE
    /\ steps = 0
    /\ waits = FALSE

----------------------------------------------------------------------------
\* Scheduler::add, lines 112-115: the id of the next process.
\* Variant: wrapping_add in place of checked_add.
NextIdWrapping(last) ==
    IF last = None THEN Some(0) ELSE Some((last[1] + 1) % (IdMax + 1))

\* Variant: the increment forgotten.
NextIdRepeated(last) ==
    IF last = None THEN Some(0) ELSE last

NextId(last) ==
    IF last = None THEN Some(0) ELSE checked_add(last[1], 1)

\* line 117
Stamp(p, id) == [p EXCEPT !.trap_frame.tpidr = id]

\* Variant: current follows the process added last.
AddCurrentAlways(cur, id) == Some(id)

\* lines 120-122
AddCurrent(cur, id) == IF cur = None THEN Some(id) ELSE cur

\* Variant: the new process goes to the head.
EnqueueFront(q, p) == push_front(q, p)

\* line 118
Enqueue(q, p) == push_back(q, p)

\* Scheduler::add, lines 111-126
add(p) ==
    /\ LET id == NextId(last_id) IN
        IF id = None
        THEN /\ ret' = [op |-> "add", id |-> None]
             /\ UNCHANGED <<core, returned, saved>>
        ELSE /\ processes' = Enqueue(processes, Stamp(p, id[1]))
             /\ current' = AddCurrent(current, id[1])
             /\ last_id' = id
             /\ ret' = [op |-> "add", id |-> id]
             /\ returned' = Append(returned, id[1])
             /\ saved' = [saved EXCEPT ![p.stack] = Some(Stamp(p, id[1]).trap_frame)]
    /\ UNCHANGED <<pc, current_id, process, tf, entry, ran_running, steps, waits>>

----------------------------------------------------------------------------
\* Scheduler::switch, lines 139-140: the outgoing process takes the caller's
\* trap frame and the target state.
\* Variant: the registers are saved, the process keeps its own tpidr.
SaveOutgoingKeepTpidr(p, new_state, frame) ==
    [p EXCEPT !.trap_frame.regs = frame.regs, !.state = new_state]

SaveOutgoing(p, new_state, frame) ==
    [p EXCEPT !.trap_frame = frame, !.state = new_state]

\* Variant: line 141 forgotten.
RequeueDropped(q, p) == q

\* Variant: the outgoing process goes back to the head.
RequeueFront(q, p) == push_front(q, p)

\* line 141
Requeue(q, p) == push_back(q, p)

\* lines 137-141
switch(new_state, frame) ==
    /\ tf' = frame
    /\ ran_running' = (ran_running \/ new_state = "Running")
    /\ IF processes = << >>
       THEN /\ ret' = [op |-> "switch", id |-> None]
            /\ entry' = [NoEntry EXCEPT !.frame = Some(frame)]
            /\ UNCHANGED <<core, pc, current_id, saved>>
       ELSE LET cur == Head(processes)
                q == Requeue(pop_front_rest(processes),
                             SaveOutgoing(cur, new_state, frame))
            IN /\ processes' = q
               /\ current_id' = Some(get_id(cur))
               /\ pc' = "scan"
               /\ ret' = [op |-> "switching", id |-> None]
               /\ saved' = [saved EXCEPT ![cur.stack] = Some(frame)]
               /\ entry' = [before |-> SomeReady(processes),
                            ready |-> SomeReady(q),
                            turn |-> /\ new_state = "Ready"
                                     /\ \A i \in 2..Len(processes) :
                                            is_ready(processes[i]),
                            len |-> Len(processes),
                            stack |-> cur.stack,
                            frame |-> Some(frame)]
               /\ UNCHANGED <<current, last_id>>
    /\ UNCHANGED <<process, returned, steps, waits>>

----------------------------------------------------------------------------
\* Variant: the process that has just run is not taken again.
EligibleOther(p) == is_ready(p) /\ Some(get_id(p)) # current_id

\* line 145: the scan takes the process when it is ready.
Eligible(p) == is_ready(p)

\* Variant: line 146 forgotten, current keeps naming the outgoing process.
SelectCurrentStale(p) == current

\* line 146
SelectCurrent(p) == Some(get_id(p))

\* line 147
Restore(p, frame) == p.trap_frame

\* Variant: line 148 forgotten.
MarkRunningForgotten(p) == p

\* line 148
MarkRunning(p) == [p EXCEPT !.state = "Running"]

\* Variant: line 151 forgotten.
ReinsertDropped(q, p) == q

\* Variant: the selected process goes to the tail like every other one.
ReinsertBack(q, p) == push_back(q, p)

\* line 151
Reinsert(q, p) == push_front(q, p)

\* line 153
Cycled(p, cid) == get_id(p) = cid

\* Variant: the scanned process goes back to the head.
RotateFront(q, p) == push_front(q, p)

\* line 158
Rotate(q, p) == push_back(q, p)

\* One iteration of the loop, lines 144-158, up to the call of wfi.
switch_loop ==
    /\ pc = "scan"
    /\ IF processes = << >>
       THEN \* line 144: pop_front()? on an empty queue returns None
            /\ pc' = "idle"
            /\ ret' = [op |-> "switch", id |-> None]
            /\ current_id' = None
            /\ entry' = NoEntry /\ steps' = 0 /\ waits' = FALSE
            /\ UNCHANGED <<core, process, tf, saved>>
       ELSE LET p == Head(processes)
                rest == pop_front_rest(processes)
            IN IF Eligible(p)
               THEN /\ current' = SelectCurrent(p)
                    /\ tf' = Restore(p, tf)
                    /\ processes' = Reinsert(rest, MarkRunning(p))
                    /\ pc' = "idle"
                    /\ ret' = [op |-> "switch", id |-> SelectCurrent(p)]
                    /\ current_id' = None
                    /\ saved' = [saved EXCEPT ![p.stack] = None]
                    /\ entry' = NoEntry /\ steps' = 0 /\ waits' = FALSE
                    /\ UNCHANGED <<last_id, process>>
               ELSE IF Cycled(p, current_id[1])
               THEN /\ processes' = rest
                    /\ process' = Some(p)
                    /\ pc' = "wfi"
                    /\ steps' = Min(steps + 1, StepCap)
                    /\ waits' = TRUE
                    /\ UNCHANGED <<current, last_id, current_id, tf, ret, saved, entry>>
               ELSE /\ processes' = Rotate(rest, p)
                    /\ steps' = Min(steps + 1, StepCap)
                    /\ UNCHANGED <<current, last_id, current_id, process, pc, tf, ret,
                                   saved, entry, waits>>
    /\ UNCHANGED <<returned, ran_running, outer>>

\* Variant: the loop continues after wfi without line 158.
wfi_continue ==
    /\ pc = "wfi"
    /\ process' = None
    /\ pc' = "scan"
    /\ UNCHANGED <<core, current_id, tf, ret, history, outer>>

\* aarch64::wfi() returns (line 155) and the loop pushes the process back
\* (line 158).
wfi ==
    /\ pc = "wfi"
    /\ processes' = push_back(processes, process[1])
    /\ process' = None
    /\ pc' = "scan"
    /\ UNCHANGED <<current, last_id, current_id, tf, ret, history, outer>>

\* The external agent of the specification: an interrupt handler marks a
\* Blocked process Ready, wherever the process is held.
Unblock(p) == [p EXCEPT !.state = "Ready"]

flip ==
    \/ \E i \in 1..Len(processes) :
          /\ processes[i].state = "Blocked"
          /\ processes' = [processes EXCEPT ![i] = Unblock(processes[i])]
          /\ UNCHANGED <<current, last_id, pc, current_id, process, tf, ret, history,
                         outer>>
    \/ /\ process # None
       /\ process[1].state = "Blocked"
       /\ process' = Some(Unblock(process[1]))
       /\ UNCHANGED <<core, pc, current_id, tf, ret, history, outer>>

----------------------------------------------------------------------------
\* The facade, GlobalScheduler.

\* Variant: the guard is dropped while the CPU is parked in wfi.
LockHeldOutsideWfi == pc = "scan"

\* Variant: the guard is dropped as soon as the core has been reached.
LockHeldNever == FALSE

\* Lines 28 and 37: the guard self.0.lock() returns is a temporary of the
\* whole statement, so it is held until the delegated call has returned.
LockHeld == pc \in {"scan", "wfi"}

\* Variant: the call on an absent core gives up with no id.
UninitializedReturnsNone ==
    /\ ret' = [op |-> "add", id |-> None]
    /\ UNCHANGED <<core, pc, current_id, process, tf, history>>

\* Lines 28 and 37: expect("scheduler uninitialized") on None panics; the
\* kernel does not come back from a panic.
Panic ==
    /\ pc' = "panic"
    /\ ret' = [op |-> "panic", id |-> None]
    /\ UNCHANGED <<core, current_id, process, tf, history>>

\* Mutex::lock: a call gets the guard when it is free and no caller that
\* came earlier is spinning for it.
CanLock == ~LockHeld /\ agent = "idle"

\* GlobalScheduler::add, lines 27-29
GlobalScheduler_add(p) ==
    /\ pc # "panic"
    /\ CanLock
    /\ IF facade = "Initialized"
       THEN add(p)
       ELSE Panic
    /\ UNCHANGED outer

\* GlobalScheduler::switch, lines 36-38, up to the loop of Scheduler::switch
GlobalScheduler_switch(new_state, frame) ==
    /\ pc # "panic"
    /\ CanLock
    /\ IF facade = "Initialized"
       THEN switch(new_state, frame)
       ELSE Panic
    /\ UNCHANGED outer

\* GlobalScheduler::start, line 44: a new core replaces whatever the facade
\* holds (the history starts again with the core).  The guard of line 44
\* is dropped at the end of that statement; the registrations of lines 53
\* and 58 are calls of GlobalScheduler::add.
start ==
    /\ pc # "panic"
    /\ CanLock
    /\ facade' = "Initialized"
    /\ processes' = << >>
    /\ current' = None
    /\ last_id' = None
    /\ ret' = [op |-> "start", id |-> None]
    /\ returned' = << >>
    /\ saved' = [s \in Stacks |-> None]
    /\ entry' = NoEntry
    /\ ran_running' = FALSE
    /\ UNCHANGED <<agent, pc, current_id, process, tf, steps, waits>>

\* Mutex::lock: a second caller of the facade finds the guard taken and
\* spins.
agent_lock ==
    /\ pc # "panic"
    /\ agent = "idle"
    /\ LockHeld
    /\ agent' = "spinning"
    /\ UNCHANGED <<core, facade, pc, current_id, process, tf, ret, history>>

\* Mutex::lock: the guard is free and the spinning caller takes it; the call
\* it then makes is a call of the facade like any other.
agent_acquire ==
    /\ pc # "panic"
    /\ agent = "spinning"
    /\ ~LockHeld
    /\ agent' = "idle"
    /\ UNCHANGED <<core, facade, pc, current_id, process, tf, ret, history>>

\* The stack Process::new() allocates for the next process.
NewStack == Len(processes) + 1

Next ==
    \/ start
    \/ \E r \in Regs : GlobalScheduler_add(Process_new(NewStack, r))
    \/ \E s \in States, f \in TrapFrames : GlobalScheduler_switch(s, f)
    \/ switch_loop
    \/ wfi
    \/ flip
    \/ agent_lock
    \/ agent_acquire

Spec == Init /\ [][Next]_vars

\* The scan is fair when the loop keeps taking steps and wfi returns: start
\* arms the timer (tick_in(TICK), line 61), so interrupts keep arriving.
FairSpec == Spec /\ WF_vars(switch_loop) /\ WF_vars(wfi)

----------------------------------------------------------------------------
\* Steps and state sets the properties speak of.

\* A step that is an add call returning (a flip leaves ret and the length of
\* the ready set as they are).
AddStep ==
    /\ pc = "idle"
    /\ ret'.op = "add"
    /\ (ret' # ret \/ Len(processes') # Len(processes))

\* A step in which a switch call is entered.
SwitchEntryStep ==
    /\ pc = "idle"
    /\ ret'.op \in {"switch", "switching"}
    /\ (pc' # pc \/ ret' # ret \/ tf' # tf \/ entry' # entry)

\* A step in which a switch call returns.
SwitchReturnStep ==
    /\ pc' = "idle"
    /\ ret'.op = "switch"
    /\ (pc = "scan" \/ SwitchEntryStep)

\* A step in which the scan selects a process and switch returns its id.
\* A step of start that installs a new core.
StartStep == ret'.op = "start" /\ ret.op # "start"

SelectStep == pc = "scan" /\ pc' = "idle" /\ ret'.id # None

Running(q) == {i \in 1..Len(q) : q[i].state = "Running"}

----------------------------------------------------------------------------
\* C1: the k-th successful add returns id k-1 (0, 1, 2, ... in call order,
\* whatever switch calls come in between), and after each successful add
\* last_id is the id just returned.
C1_SequentialIds ==
    /\ \A k \in 1..Len(returned) : returned[k] = k - 1
    /\ (returned # << >> => last_id = Some(returned[Len(returned)]))
    /\ (returned = << >> => last_id = None)
    /\ (ret.op = "add" /\ ret.id # None => ret.id = last_id)

\* The second add returned 1 after a switch call had run in between.
C1_Witness ==
    /\ ret = [op |-> "add", id |-> Some(1)]
    /\ Len(returned) = 2
    /\ processes[1].state = "Running"

\* C2 as stated: between calls at most one process is Running, whatever
\* target state switch is passed.
C2_AtMostOneRunning ==
    pc = "idle" => Cardinality(Running(processes)) <= 1

\* C2 as amended: between calls at most one process is Running as long as no
\* switch call has been passed the target state Running.
C2_AtMostOneRunningUnlessPassed ==
    (pc = "idle" /\ ~ran_running) => Cardinality(Running(processes)) <= 1

\* A switch has returned with one process Running and another Ready, no
\* call having been passed Running.
C2_Witness ==
    /\ pc = "idle" /\ ~ran_running
    /\ Len(processes) = 2
    /\ processes[1].state = "Running"
    /\ processes[2].state = "Ready"
    /\ ret.op = "switch"

\* C3: between calls, when current is set it is the id of a process of the
\* ready set.
C3_CurrentPresent ==
    (pc = "idle" /\ current # None) =>
        \E i \in 1..Len(processes) : get_id(processes[i]) = current[1]

\* A switch has moved current to the second process.
C3_Witness ==
    /\ pc = "idle"
    /\ ret = [op |-> "switch", id |-> Some(1)]
    /\ current = Some(1)
    /\ processes[1].stack = 2

\* C4: switch keeps the ready set: at every iteration boundary of the scan
\* and when the call returns, the ready set holds the processes it held at
\* entry, each once.
C4_SwitchKeepsLength ==
    [][/\ (pc' = "scan" =>
              /\ Len(processes') = entry'.len
              /\ {processes'[i].stack : i \in 1..Len(processes')} = 1..entry'.len)
       /\ (SwitchReturnStep =>
              /\ Len(processes') = Len(processes)
              /\ {processes'[i].stack : i \in 1..Len(processes')}
                   = {processes[i].stack : i \in 1..Len(processes)})]_vars

\* The scan is at an iteration boundary after a wait, with both processes
\* in the ready set.
C4_Witness ==
    /\ pc = "scan"
    /\ waits
    /\ steps >= 2
    /\ Len(processes) = 2

\* Some process the scheduler owns is Ready.
ReadyExists == \E p \in AllProcesses : is_ready(p)

\* A process other than the outgoing one carries the id that switch read
\* from the outgoing process at entry (line 138).
OutgoingIdShared ==
    \E p \in AllProcesses : p.stack # entry.stack /\ get_id(p) = current_id[1]

C6_ReturnsReadyAsRunning ==
    [][SelectStep =>
          /\ ReadyExists
          /\ is_ready(Head(processes))
          /\ ret'.id = Some(get_id(Head(processes)))
          /\ Head(processes').stack = Head(processes).stack
          /\ get_id(Head(processes')) = ret'.id[1]
          /\ Head(processes').state = "Running"]_vars

\* A call entered with no Ready process has waited, and a flip has made the
\* process at the head Ready.
C6_Witness ==
    /\ pc = "scan"
    /\ ~entry.before /\ ~entry.ready
    /\ waits
    /\ is_ready(Head(processes))

\* C7: a trap frame that switch stored into the outgoing process (or add
\* into a new one) stays as stored, field by field, through every later add,
\* switch and flip, and is the value the switch that next selects the
\* process copies into the caller's buffer.
C7_SnapshotRoundTrip ==
    [][/\ \A i \in 1..Len(processes') :
             saved'[processes'[i].stack] # None =>
                 processes'[i].trap_frame = saved'[processes'[i].stack][1]
       /\ (process' # None /\ saved'[process'[1].stack] # None =>
               process'[1].trap_frame = saved'[process'[1].stack][1])
       /\ (SelectStep /\ saved[Head(processes).stack] # None =>
               tf' = saved[Head(processes).stack][1])]_vars

\* The scan is about to select a process that an earlier switch call
\* switched out with a frame unlike the one add gave it.
C7_Witness ==
    /\ pc = "scan"
    /\ is_ready(Head(processes))
    /\ Head(processes).stack # entry.stack
    /\ saved[Head(processes).stack] # None
    /\ saved[Head(processes).stack][1].regs = 1
    /\ saved[Head(processes).stack][1].tpidr # Head(processes).stack - 1

\* C8: under a fair scan, a running switch call with some process Ready
\* returns an id; and no call returns an id from a state in which no
\* process is Ready.
C8_EventuallyReturns ==
    /\ (pc # "idle" /\ ReadyExists) ~> (pc = "idle" /\ ret.op = "switch" /\ ret.id # None)
    /\ [][(pc # "idle" /\ ~ReadyExists) => (pc' # "idle")]_vars

\* A call that has gone round the ready set more than once is parked in wfi
\* and an external flip has made a process Ready.
C8_Witness ==
    /\ pc = "wfi"
    /\ steps > entry.len
    /\ ~entry.ready
    /\ ReadyExists

\* C9: switch returns no id exactly when the ready set is empty at the
\* call, and then the core and the caller's buffer are as they were; no
\* switch returns no id once an add has succeeded.
C9_NoneOnlyWhenEmpty ==
    [][/\ (SwitchReturnStep /\ ret'.id = None =>
              /\ pc = "idle"
              /\ processes = << >>
              /\ returned = << >>
              /\ core' = core
              /\ tf' = entry'.frame[1])
       /\ (SwitchEntryStep /\ processes = << >> =>
              pc' = "idle" /\ ret' = [op |-> "switch", id |-> None])
       /\ (SwitchEntryStep /\ processes # << >> => ret'.op = "switching")]_vars

\* switch has returned no id on the empty ready set, the buffer untouched.
C9_Witness ==
    /\ pc = "idle"
    /\ ret = [op |-> "switch", id |-> None]
    /\ processes = << >>
    /\ tf = [tpidr |-> 1, regs |-> 1]

\* C10: add called with last_id at the largest Id returns no id and leaves
\* processes, current and last_id as they were.
C10_ExhaustionFails ==
    [][(AddStep /\ last_id = Some(IdMax)) =>
          /\ ret'.id = None
          /\ core' = core]_vars

\* add has failed on the exhausted id space after a switch call.
C10_Witness ==
    /\ ret = [op |-> "add", id |-> None]
    /\ last_id = Some(IdMax)
    /\ Len(processes) = IdMax + 1
    /\ current = Some(IdMax)

\* C11: in one core, the first successful add sets current to the id it
\* returns, 0; no later add changes current; after that only a switch that
\* selects a process changes it.
C11_FirstAddSetsCurrent ==
    [][~StartStep =>
          /\ (AddStep /\ current = None /\ ret'.id # None =>
                 current' = ret'.id /\ current' = Some(0))
          /\ (AddStep /\ current # None => current' = current)
          /\ (current' # current /\ current # None => SelectStep)]_vars

\* The second add has returned and current still names the first process,
\* no switch having run.
C11_Witness ==
    /\ pc = "idle"
    /\ ret = [op |-> "add", id |-> Some(1)]
    /\ current = Some(0)
    /\ \A i \in 1..Len(processes) : processes[i].state = "Ready"

\* C12: the ids of the processes are pairwise distinct and each process
\* keeps the id add gave it, whatever buffer switch is passed.
C12_IdsUniqueImmutable ==
    /\ \A p \in AllProcesses : get_id(p) = returned[p.stack]
    /\ \A p, q \in AllProcesses : p.stack # q.stack => get_id(p) # get_id(q)

\* The number of processes the core holds, the one in the local of the
\* loop included.
Held == Len(processes) + Len(process)

\* C13: add and switch of the facade, called while it is Uninitialized, end
\* in a panic that nothing follows, return no value and leave the facade
\* Uninitialized.
C13_UninitializedPanics ==
    [][/\ pc # "panic"
       /\ (facade = "Uninitialized" /\ ret'.op # "start" =>
              /\ pc' = "panic"
              /\ ret' = [op |-> "panic", id |-> None]
              /\ facade' = "Uninitialized"
              /\ core' = core)]_vars

\* A call on the Uninitialized facade has panicked.
C13_Witness ==
    /\ pc = "panic"
    /\ ret.op = "panic"
    /\ facade = "Uninitialized"
    /\ processes = << >>

\* C14: the facade becomes Initialized once, on start, and stays so; an
\* installed core is never replaced, so no registered process is lost.
C14_InstalledOnce ==
    [][facade = "Initialized" =>
          /\ facade' = "Initialized"
          /\ ~StartStep
          /\ Held' >= Held]_vars

\* A call of switch has taken the head off the queue and has not returned.
InSwitch == pc \in {"scan", "wfi"}

\* C15: while a call of switch is between its entry and its return, no
\* other call of add, switch or start changes the core, the only result
\* produced is the return of that call, and a caller that arrived in the
\* meantime is still waiting for the guard.
C15_CallsAtomic ==
    [][InSwitch =>
          /\ Held' = Held
          /\ facade' = facade
          /\ last_id' = last_id
          /\ (pc' # "idle" => entry' = entry /\ current_id' = current_id /\ ret' = ret)
          /\ (agent = "spinning" => agent' = "spinning")]_vars

\* A second caller spins on the guard while switch has a process popped
\* out of the queue and the CPU is parked.
C15_Witness ==
    /\ agent = "spinning"
    /\ pc = "wfi"
    /\ process # None
    /\ Len(processes) = 1

\* C16: when switch returns an id, the head of the queue has that id, is
\* Running, current is that id and the caller's buffer is the head's stored
\* frame; an add leaves the head where it is; so the process a call of
\* switch takes off the head is the one current names.
C16_HeadIsRunning ==
    [][/\ (SwitchReturnStep /\ ret'.id # None =>
              /\ processes' # << >>
              /\ Some(get_id(Head(processes'))) = ret'.id
              /\ Head(processes').state = "Running"
              /\ current' = ret'.id
              /\ tf' = Head(processes').trap_frame)
       /\ (AddStep /\ processes # << >> =>
              /\ Head(processes') = Head(processes)
              /\ current' = current)
       /\ (SwitchEntryStep /\ processes # << >> =>
              /\ current = Some(get_id(Head(processes)))
              /\ current_id' = current)]_vars

\* switch has selected the first process and an add made afterwards has
\* left it, Running, at the head.
C16_Witness ==
    /\ pc = "idle"
    /\ ret = [op |-> "add", id |-> Some(1)]
    /\ Len(processes) = 2
    /\ processes[1].state = "Running"
    /\ current = Some(get_id(processes[1]))

\* The processes of the core in queue order, each named by its stack; the
\* process in the local of the loop is the one popped last.
Order == [i \in 1..Held |-> (processes \o process)[i].stack]

\* b is a turned one place to the left.
RotatedLeft(a, b) == a # << >> /\ b = Tail(a) \o <<Head(a)>>

Position(o, s) == CHOOSE i \in 1..Len(o) : o[i] = s
Successor(o, s) == o[(Position(o, s) % Len(o)) + 1]

\* C17: a call of switch with target Ready, made when every process but
\* the head is Ready, selects in its first iteration, without waiting, the
\* process that follows the outgoing one in queue order (the outgoing one
\* itself when it is alone) and leaves the outgoing one at the tail, so
\* that n such calls select each of n processes once.
C17_RoundRobin ==
    [][/\ (entry.turn => pc' # "wfi" /\ steps' = 0)
       /\ (SelectStep /\ entry.turn =>
              /\ Head(processes').stack = Successor(Order, entry.stack)
              /\ Order'[Len(Order')] = entry.stack
              /\ Len(Order') = entry.len)]_vars

\* Two processes have taken turns: the second call of switch with target
\* Ready has given the CPU back to the first process.
C17_Witness ==
    /\ pc = "idle"
    /\ ~ran_running
    /\ ret.op = "switch"
    /\ ret.id # None
    /\ Order = <<1, 2>>
    /\ processes[1].state = "Running"
    /\ processes[2].state = "Ready"
    /\ saved[2] # None

\* An iteration of the loop of switch.
LoopStep == pc = "scan" /\ (pc' # "scan" \/ steps' # steps \/ Order' # Order)

\* C18: an iteration of the loop calls wfi exactly when the process it
\* scans is the one the call took off the head at its entry and that
\* process is not Ready; after the wait that process goes to the tail and
\* the scan goes on, the call not returning.
C18_WaitAtOutgoing ==
    [][/\ (LoopStep /\ processes # << >> =>
              (pc' = "wfi" <=>
                  /\ Head(processes).stack = entry.stack
                  /\ ~is_ready(Head(processes))))
       /\ (pc = "wfi" =>
              /\ pc' \in {"wfi", "scan"}
              /\ ret' = ret
              /\ (pc' = "scan" =>
                     /\ processes' = push_back(processes, process[1])
                     /\ process[1].stack = entry.stack))]_vars

\* A call of switch is inside its loop with no process Ready while another
\* caller, which has to get through a call of the facade first, spins on
\* the guard.
Stuck == InSwitch /\ ~ReadyExists /\ agent = "spinning"

\* C19: while switch loops with no process Ready and the other caller
\* waits for the guard, neither gets any further unless a process is made
\* Ready without the guard; once a process has been made Ready that way,
\* the waiting call of switch returns an id.
C19_LockHeldDuringWait ==
    /\ [][Stuck => Stuck' \/ ReadyExists']_vars
    /\ (InSwitch /\ waits /\ agent = "spinning" /\ ReadyExists) ~>
           (pc = "idle" /\ ret.op = "switch" /\ ret.id # None)

\* The CPU is parked in wfi inside switch, every process is Blocked and the
\* other caller spins on the guard.
C19_Witness ==
    /\ pc = "wfi"
    /\ Stuck
    /\ process # None
    /\ \A p \in AllProcesses : p.state = "Blocked"

====
